---- MODULE Spec2Model ----
(***************************************************************************)
(* 6502 Emulator v0.1 (src/src/6502.c).                                    *)
(*                                                                         *)
(* The translation unit declares the CPU registers pc, s, p, a, x, y and   *)
(* the array memory as file-scope objects with external linkage, and two   *)
(* functions: reset(), whose whole body is `pc = 0xFFFC;`, and main(),     *)
(* whose body is empty.  There is no step(), no opcode decoder, no stack   *)
(* push/pop and no interrupt sequencing anywhere in the source.            *)
(*                                                                         *)
(* The model is the state machine of these objects: reset() may be called  *)
(* on any register and memory contents (the objects are writable by any    *)
(* caller that links against the file), so Init draws the contents from    *)
(* bounded sample sets that include the zero-initialised contents the C    *)
(* objects have at program start.                                          *)
(***************************************************************************)
EXTENDS Integers, FiniteSets

\* Width of uint16_t (pc) and uint8_t (s, p, a, x, y, memory[i]).
Word == 65536
Byte == 256

\* 0xFFFC, the constant reset() stores into pc.
ResetVector == 65532

\* Masks of the P register's flags, from the register documentation comment
\* (flags listed from bit 7: N V 1 B D I Z C).
FlagI == 4                \* bit 2 of P, Interrupt disable
FlagUnused == 32          \* bit 5 of P, "unused flag ... always 1"

\* Bound on the number of reset() calls one behaviour makes.
MaxCalls == 3

\* Sample contents the registers and the memory cells may hold when reset()
\* is called.  0 is the content of every object at program start.
PcSamples == {0, 1536, ResetVector, Word - 1}
ByteSamples == {0, 253, Byte - 1}
FlagSamples == {0, FlagI, FlagUnused, FlagUnused + FlagI + 16, Byte - 1}
RegSamples == {0, 66}
MemSamples == {0, 6, Byte - 1}

\* The memory cells the model keeps: the two bytes of the RESET vector and
\* cell 0 (the declaration `uint8_t memory[];` gives the array no size).
Addrs == {0, ResetVector, ResetVector + 1}

\* pc, s, p, a, x, y, memory: the file-scope objects of the source.
\* calls:  how many reset() calls have returned (bookkeeping, not an object).
\* exited: main() has returned, after which nothing runs.
VARIABLES pc, s, p, a, x, y, memory, calls, exited

regs == <<pc, s, p, a, x, y>>
cpu == <<pc, s, p, a, x, y, memory>>
vars == <<pc, s, p, a, x, y, memory, calls, exited>>

\* Bit b (given as its mask, a power of two) of byte v.
BitSet(v, mask) == (v \div mask) % 2 = 1

Init ==
    /\ pc \in PcSamples
    /\ s \in ByteSamples
    /\ p \in FlagSamples
    /\ a \in RegSamples
    /\ x \in RegSamples
    /\ y \in RegSamples
    /\ memory \in [Addrs -> MemSamples]
    /\ calls = 0
    /\ exited = FALSE

\* The state of the C objects at program start: static storage, no
\* initialisers, hence all zero.
ProgramStart ==
    /\ pc = 0 /\ s = 0 /\ p = 0 /\ a = 0 /\ x = 0 /\ y = 0
    /\ \A i \in Addrs : memory[i] = 0
    /\ calls = 0

\* Variants of reset() with one plausible slip each; none is part of Next.

\* reset() that also clears the accumulator and the index registers.
reset_ClearsAXY ==
    /\ ~exited
    /\ calls < MaxCalls
    /\ pc' = ResetVector % Word
    /\ a' = 0 /\ x' = 0 /\ y' = 0
    /\ UNCHANGED <<s, p, memory>>
    /\ calls' = calls + 1
    /\ UNCHANGED exited

\* reset() whose constant has one hex digit too many (0xFFFFC), with pc
\* declared wider than 16 bits so that the store keeps the value.
reset_WidePc ==
    /\ ~exited
    /\ calls < MaxCalls
    /\ pc' = 1048572
    /\ UNCHANGED <<s, p, a, x, y, memory>>
    /\ calls' = calls + 1
    /\ UNCHANGED exited

\* reset() written as `pc += 0xFFFC;`.
reset_AddsToPc ==
    /\ ~exited
    /\ calls < MaxCalls
    /\ pc' = (pc + ResetVector) % Word
    /\ UNCHANGED <<s, p, a, x, y, memory>>
    /\ calls' = calls + 1
    /\ UNCHANGED exited

\* void reset(){ pc = 0xFFFC; }
reset ==
    /\ ~exited
    /\ calls < MaxCalls
    /\ pc' = ResetVector % Word
    /\ UNCHANGED <<s, p, a, x, y, memory>>
    /\ calls' = calls + 1
    /\ UNCHANGED exited

\* int main(){ }  -- returns at once; touches no object.
main ==
    /\ ~exited
    /\ exited' = TRUE
    /\ UNCHANGED <<pc, s, p, a, x, y, memory, calls>>

Next == reset \/ main

Spec == Init /\ [][Next]_vars

----------------------------------------------------------------------------
\* A step of the behaviour that is a call of reset(): the only action that
\* advances the call counter.
IsResetStep == calls' = calls + 1

\* C1: after reset() returns, S = $FD and the Interrupt-disable flag (bit 2
\* of P) is 1, whatever the prior state.  The code's reset() assigns pc only.
C1_ResetStackAndI == calls >= 1 => (s = 253 /\ BitSet(p, FlagI))

\* C2: after reset() returns, PC is the little-endian 16-bit value stored at
\* $FFFC/$FFFD (the vector's contents, not the vector's address).
C2_ResetLoadsVector ==
    calls >= 1 => pc = memory[ResetVector] + Byte * memory[ResetVector + 1]

\* C3: reset() leaves A, X and Y unchanged: across every reset() step their
\* values after the call equal their values before it.
C3_ResetKeepsAXY == [][IsResetStep => (a' = a /\ x' = x /\ y' = y)]_vars

\* C3 witness: reset() has returned and A, X, Y still hold non-zero values.
C3_Witness == calls >= 1 /\ pc = ResetVector /\ a = 66 /\ x = 66 /\ y = 66

\* C4: in every reachable state, the initial state at program start and the
\* states after reset() calls included, the unused flag (bit 5) of P is 1.
C4_UnusedFlagSet == BitSet(p, FlagUnused)

C10_ResetFrameIdempotent ==
    [][IsResetStep => (memory' = memory /\ (calls >= 1 => cpu' = cpu))]_vars

\* C10 witness: two reset() calls have returned on a memory whose RESET
\* vector is non-zero, and the memory is still what it was.
C10_Witness ==
    /\ calls >= 2
    /\ pc = ResetVector
    /\ memory[ResetVector] = 6 /\ memory[ResetVector + 1] = Byte - 1

====
